---- MODULE Spec2Model ----
(***************************************************************************)
(* Exam scheduler (Welsh-Powell): the conflict graph builder, the greedy   *)
(* coloring engine and the schedule mapper of src/app.py.                  *)
(*                                                                         *)
(* Three specifications share the variables below:                         *)
(*   Spec       one run of welsh_powell(adj), statement by statement       *)
(*   SpecBuild  one run of build_conflicts_from_enrollments(enrollments)   *)
(*   SpecSched  one run of schedule_from_coloring(coloring, hour, dur)     *)
(* A Python dict is a function whose DOMAIN is the dict's key set; a list  *)
(* is a sequence; a set is a set.                                          *)
(***************************************************************************)
EXTENDS Integers, Sequences, FiniteSets, TLC

VARIABLES
    pc,               \* position in the function being run
    adj,              \* welsh_powell: the argument (dict exam -> set of exams)
    full,             \* welsh_powell: symmetrised adjacency
    order,            \* welsh_powell: the sorted vertex list
    color,            \* welsh_powell: dict exam -> color
    current_color,    \* welsh_powell: the color of the class being grown
    i,                \* welsh_powell: index of v in order (outer for)
    j,                \* welsh_powell: index of u in order (inner for)
    enrollments,      \* builder: the argument (dict student -> list of exams)
    conflicts,        \* builder: dict exam -> set of exams
    todo,             \* builder: students the outer for has not visited yet
    cur,              \* builder: the student being visited
    ci,               \* builder: index i of the pair loop (1-based here)
    cj,               \* builder: index j of the pair loop (1-based here)
    coloring,         \* mapper: the argument (dict exam -> slot)
    slot_start_hour,  \* mapper: argument
    slot_duration,    \* mapper: argument
    items,            \* mapper: the sorted list of exams of coloring.items()
    k,                \* mapper: index into items
    rows,             \* mapper: the list of records built so far
    outcome           \* mapper: "running", or "returned" once the frame is returned

vars == <<pc, adj, full, order, color, current_color, i, j,
          enrollments, conflicts, todo, cur, ci, cj,
          coloring, slot_start_hour, slot_duration, items, k, rows, outcome>>

wpVars    == <<adj, full, order, color, current_color, i, j>>
buildVars == <<enrollments, conflicts, todo, cur, ci, cj>>
schedVars == <<coloring, slot_start_hour, slot_duration, items, k, rows, outcome>>

----------------------------------------------------------------------------
(* Bounds of the model *)

NumExams == 3

MaxCourses == 2

MaxSlot == 3

MaxDuration == 2

\* Exam identifiers are strings; AllIds lists them in ascending lexicographic
\* order, so Rank(x) < Rank(y) is Python's str(x) < str(y).
AllIds == <<"A", "B", "C", "D", "E", "F">>

Exams == {AllIds[n] : n \in 1..NumExams}

Rank(x) == CHOOSE n \in 1..Len(AllIds) : AllIds[n] = x

Students == {"S1", "S2"}

\* Values offered for the mapper's parameters: the sliders' lowest, default and
\* highest start hour, and durations on both sides of zero.
Hours == {0, 9, 23}

Durations == -1..MaxDuration

----------------------------------------------------------------------------
(* Helpers for dicts and sorting *)

EmptyDict == [x \in {} |-> 0]

\* d[key] = val
Put(d, key, val) == [x \in DOMAIN d \cup {key} |-> IF x = key THEN val ELSE d[x]]

RECURSIVE Perms(_)
\* the arrangements of S as lists
Perms(S) ==
    IF S = {} THEN {<<>>}
    ELSE UNION {{Append(p, x) : p \in Perms(S \ {x})} : x \in S}

\* Python's sort is stable, so the possible results of sorted(S, key), over all
\* the orders S may be enumerated in, are the arrangements of S with no pair out
\* of key order: SortedOrders and SortedItems below.

----------------------------------------------------------------------------
(* welsh_powell *)

\* lines 11-14
Vertices(a) == DOMAIN a \cup UNION {a[v] : v \in DOMAIN a}

\* lines 16-20
Full(a) ==
    [v \in Vertices(a) |->
        {u \in Vertices(a) : \/ (v \in DOMAIN a /\ u \in a[v])
                             \/ (u \in DOMAIN a /\ v \in a[u])}]

KeyLessDegreeOnly(fl, x, y) == Cardinality(fl[x]) > Cardinality(fl[y])

\* line 22: key (-len(full[x]), str(x)), tuples compared lexicographically
KeyLess(fl, x, y) ==
    \/ Cardinality(fl[x]) > Cardinality(fl[y])
    \/ (Cardinality(fl[x]) = Cardinality(fl[y]) /\ Rank(x) < Rank(y))

\* line 22
SortedOrders(fl) ==
    {p \in Perms(DOMAIN fl) : \A a, b \in 1..Len(p) : a < b => ~KeyLess(fl, p[b], p[a])}

UncoloredAlways(col, u) == TRUE

\* lines 28, 31: u not in color
Uncolored(col, u) == u \notin DOMAIN col

EligibleIgnoringNeighbors(fl, col, c, u) == TRUE

EligibleOnlyIfNeighborsUncolored(fl, col, c, u) == \A nbr \in fl[u] : nbr \notin DOMAIN col

\* line 32
Eligible(fl, col, c, u) == \A nbr \in fl[u] : (nbr \notin DOMAIN col \/ col[nbr] # c)

\* lines 31-34: the body of the inner for
InnerBody(fl, col, c, v, u) ==
    IF Uncolored(col, u) /\ Eligible(fl, col, c, u) /\ v # u
    THEN Put(col, u, c)
    ELSE col

RECURSIVE InnerLoop(_, _, _, _, _, _)
\* lines 30-34, from index jj on
InnerLoop(fl, ord, col, c, v, jj) ==
    IF jj > Len(ord) THEN col
    ELSE InnerLoop(fl, ord, InnerBody(fl, col, c, v, ord[jj]), c, v, jj + 1)

RECURSIVE OuterLoop(_, _, _, _, _)
\* lines 27-35, from index ii on
OuterLoop(fl, ord, col, c, ii) ==
    IF ii > Len(ord) THEN col
    ELSE IF Uncolored(col, ord[ii])
         THEN OuterLoop(fl, ord, InnerLoop(fl, ord, Put(col, ord[ii], c), c, ord[ii], 1),
                        c + 1, ii + 1)
         ELSE OuterLoop(fl, ord, col, c, ii + 1)

\* lines 10-37 as a function of its argument
welsh_powell(a) ==
    LET fl == Full(a)
        ord == CHOOSE p \in SortedOrders(fl) : TRUE
    IN  OuterLoop(fl, ord, EmptyDict, 1, 1)

\* Any dict of neighbor sets: keys may be missing, edges may be listed in one
\* direction only, a vertex may list itself.
Graphs == UNION {[K -> SUBSET Exams] : K \in SUBSET Exams}

IdleBuild == /\ enrollments = EmptyDict /\ conflicts = EmptyDict /\ todo = {}
             /\ cur = "" /\ ci = 0 /\ cj = 0

IdleSched == /\ coloring = EmptyDict /\ slot_start_hour = 0 /\ slot_duration = 0
             /\ items = <<>> /\ k = 0 /\ rows = <<>> /\ outcome = "idle"

IdleWp == /\ adj = EmptyDict /\ full = EmptyDict /\ order = <<>> /\ color = EmptyDict
          /\ current_color = 0 /\ i = 0 /\ j = 0

Init ==
    /\ pc = "prepare"
    /\ adj \in Graphs
    /\ full = EmptyDict /\ order = <<>> /\ color = EmptyDict
    /\ current_color = 0 /\ i = 0 /\ j = 0
    /\ IdleBuild /\ IdleSched

\* lines 11-20
Prepare ==
    /\ pc = "prepare"
    /\ full' = Full(adj)
    /\ pc' = "sort"
    /\ UNCHANGED <<adj, order, color, current_color, i, j, buildVars, schedVars>>

\* lines 22-25
Sort ==
    /\ pc = "sort"
    /\ order' \in SortedOrders(full)
    /\ color' = EmptyDict
    /\ current_color' = 1
    /\ i' = 1
    /\ pc' = "outer"
    /\ UNCHANGED <<adj, full, j, buildVars, schedVars>>

OuterSkipBumpsColor ==
    /\ pc = "outer" /\ i <= Len(order)
    /\ ~Uncolored(color, order[i])
    /\ i' = i + 1
    /\ current_color' = current_color + 1
    /\ UNCHANGED <<pc, adj, full, order, color, j, buildVars, schedVars>>

\* lines 27-28, v already colored
OuterSkip ==
    /\ pc = "outer" /\ i <= Len(order)
    /\ ~Uncolored(color, order[i])
    /\ i' = i + 1
    /\ UNCHANGED <<pc, adj, full, order, color, current_color, j, buildVars, schedVars>>

\* lines 27-29, v not yet colored
OuterColor ==
    /\ pc = "outer" /\ i <= Len(order)
    /\ Uncolored(color, order[i])
    /\ color' = Put(color, order[i], current_color)
    /\ j' = 1
    /\ pc' = "inner"
    /\ UNCHANGED <<adj, full, order, current_color, i, buildVars, schedVars>>

\* lines 30-34, one u
InnerStep ==
    /\ pc = "inner" /\ j <= Len(order)
    /\ color' = InnerBody(full, color, current_color, order[i], order[j])
    /\ j' = j + 1
    /\ UNCHANGED <<pc, adj, full, order, current_color, i, buildVars, schedVars>>

\* line 35, after the inner for is exhausted
InnerDone ==
    /\ pc = "inner" /\ j > Len(order)
    /\ current_color' = current_color + 1
    /\ i' = i + 1
    /\ pc' = "outer"
    /\ UNCHANGED <<adj, full, order, color, j, buildVars, schedVars>>

\* line 37
Return ==
    /\ pc = "outer" /\ i > Len(order)
    /\ pc' = "done"
    /\ UNCHANGED <<wpVars, buildVars, schedVars>>

Next == Prepare \/ Sort \/ OuterSkip \/ OuterColor \/ InnerStep \/ InnerDone \/ Return

Spec == Init /\ [][Next]_vars

----------------------------------------------------------------------------
(* build_conflicts_from_enrollments *)

\* Lists of at most MaxCourses exams, repetitions allowed.
CourseLists == UNION {[1..n -> Exams] : n \in 0..MaxCourses}

Enrollments == UNION {[K -> CourseLists] : K \in SUBSET Students}

\* line 50: the exams any student lists
ListedExams(enr) == UNION {{enr[s][n] : n \in 1..Len(enr[s])} : s \in DOMAIN enr}

AddEdgeOneWay(cf, a, b) == [cf EXCEPT ![a] = @ \cup {b}]

\* lines 57-58
AddEdge(cf, a, b) ==
    LET c1 == [cf EXCEPT ![a] = @ \cup {b}]
    IN  [c1 EXCEPT ![b] = @ \cup {a}]

InitBuild ==
    /\ pc = "b_init"
    /\ enrollments \in Enrollments
    /\ conflicts = EmptyDict /\ todo = {} /\ cur = "" /\ ci = 0 /\ cj = 0
    /\ IdleWp /\ IdleSched

\* lines 50-51
BuildInit ==
    /\ pc = "b_init"
    /\ conflicts' = [e \in ListedExams(enrollments) |-> {}]
    /\ todo' = DOMAIN enrollments
    /\ pc' = "b_student"
    /\ UNCHANGED <<enrollments, cur, ci, cj, wpVars, schedVars>>

\* lines 53-54: the next item of enrollments.items(); a dict iterates in its
\* insertion order, which is the caller's, so any unvisited student may be next
NextStudent ==
    /\ pc = "b_student"
    /\ \E s \in todo :
        /\ cur' = s
        /\ todo' = todo \ {s}
    /\ ci' = 1
    /\ cj' = 2
    /\ pc' = "b_pair"
    /\ UNCHANGED <<enrollments, conflicts, wpVars, schedVars>>

\* lines 55-58: one (i, j) of the pair loop
AddPair ==
    /\ pc = "b_pair"
    /\ ci <= Len(enrollments[cur]) /\ cj <= Len(enrollments[cur])
    /\ conflicts' = AddEdge(conflicts, enrollments[cur][ci], enrollments[cur][cj])
    /\ cj' = cj + 1
    /\ UNCHANGED <<pc, enrollments, todo, cur, ci, wpVars, schedVars>>

\* lines 54-55: range(i + 1, len(courses)) exhausted, next i
NextI ==
    /\ pc = "b_pair"
    /\ ci <= Len(enrollments[cur]) /\ cj > Len(enrollments[cur])
    /\ ci' = ci + 1
    /\ cj' = ci + 2
    /\ UNCHANGED <<pc, enrollments, conflicts, todo, cur, wpVars, schedVars>>

\* line 54: range(len(courses)) exhausted, back to the student loop
StudentDone ==
    /\ pc = "b_pair"
    /\ ci > Len(enrollments[cur])
    /\ pc' = "b_student"
    /\ UNCHANGED <<enrollments, conflicts, todo, cur, ci, cj, wpVars, schedVars>>

\* line 60
BuildReturn ==
    /\ pc = "b_student"
    /\ todo = {}
    /\ pc' = "b_done"
    /\ UNCHANGED <<buildVars, wpVars, schedVars>>

NextBuild == BuildInit \/ NextStudent \/ AddPair \/ NextI \/ StudentDone \/ BuildReturn

SpecBuild == InitBuild /\ [][NextBuild]_vars

----------------------------------------------------------------------------
(* schedule_from_coloring *)

\* Any dict exam -> positive slot.
Colorings == UNION {[K -> 1..MaxSlot] : K \in SUBSET Exams}

\* line 104: key (x[1], x[0]) of an item (exam, c)
ItemLess(cl, x, y) == cl[x] < cl[y] \/ (cl[x] = cl[y] /\ Rank(x) < Rank(y))

\* line 104
SortedItems(cl) ==
    {p \in Perms(DOMAIN cl) : \A a, b \in 1..Len(p) : a < b => ~ItemLess(cl, p[b], p[a])}

StartOfSlotTimesDuration(hour, dur, c) == hour + c * dur

\* line 105
StartOf(hour, dur, c) == hour + (c - 1) * dur

\* lines 106-112; TimeLabel is a rendering of Slot, start and start + duration
\* and is not kept
Row(exam, c, hour, dur) ==
    [Exam |-> exam, Slot |-> c, start |-> StartOf(hour, dur, c), duration |-> dur]

InitSched ==
    /\ pc = "s_sort"
    /\ coloring \in Colorings
    /\ slot_start_hour \in Hours
    /\ slot_duration \in Durations
    /\ items = <<>> /\ k = 0 /\ rows = <<>> /\ outcome = "running"
    /\ IdleWp /\ IdleBuild

\* lines 103-104
SortItems ==
    /\ pc = "s_sort"
    /\ items' \in SortedItems(coloring)
    /\ rows' = <<>>
    /\ k' = 1
    /\ pc' = "s_rows"
    /\ UNCHANGED <<coloring, slot_start_hour, slot_duration, outcome, wpVars, buildVars>>

\* lines 104-112: one item
AppendRow ==
    /\ pc = "s_rows" /\ k <= Len(items)
    /\ rows' = Append(rows, Row(items[k], coloring[items[k]], slot_start_hour, slot_duration))
    /\ k' = k + 1
    /\ UNCHANGED <<pc, coloring, slot_start_hour, slot_duration, items, outcome, wpVars, buildVars>>

\* line 113: no statement of the function raises; it always returns the frame
SchedReturn ==
    /\ pc = "s_rows" /\ k > Len(items)
    /\ outcome' = "returned"
    /\ pc' = "s_done"
    /\ UNCHANGED <<coloring, slot_start_hour, slot_duration, items, k, rows, wpVars, buildVars>>

NextSched == SortItems \/ AppendRow \/ SchedReturn

SpecSched == InitSched /\ [][NextSched]_vars

----------------------------------------------------------------------------
(* Properties of welsh_powell, checked under Spec *)

\* The graph the argument denotes: its vertices and its edges, read off adj
\* itself (an edge is there when either endpoint lists the other).
InputVertices == {e \in Exams : e \in DOMAIN adj \/ \E q \in DOMAIN adj : e \in adj[q]}

InputEdge(a, b) == (a \in DOMAIN adj /\ b \in adj[a]) \/ (b \in DOMAIN adj /\ a \in adj[b])

ListedOneWay(a, b) == a \in DOMAIN adj /\ b \in adj[a] /\ (b \notin DOMAIN adj \/ a \notin adj[b])

UsedColors == {color[v] : v \in DOMAIN color}

\* C1 (properness): in the returned coloring the two ends of every edge a-b of
\* the input graph with a # b are both colored and carry different colors.
C1_Properness ==
    pc = "done" =>
        \A a, b \in InputVertices :
            (a # b /\ InputEdge(a, b)) =>
                /\ a \in DOMAIN color /\ b \in DOMAIN color
                /\ color[a] # color[b]

\* a finished run on a graph with an edge listed in one direction only and an
\* isolated vertex
C1_Witness ==
    /\ pc = "done"
    /\ \E a, b \in InputVertices : a # b /\ ListedOneWay(a, b) /\ color[a] # color[b]
    /\ \E v \in InputVertices : \A u \in InputVertices : ~InputEdge(u, v)

\* C4 (totality): the returned dict's keys are exactly the vertices of the input
\* (keys of adj and vertices met only inside a neighbor set), and no step of the
\* run removes or changes a color already assigned.
C4_Totality ==
    /\ [](pc = "done" => DOMAIN color = InputVertices)
    /\ [][\A v \in DOMAIN color : v \in DOMAIN color' /\ color'[v] = color[v]]_vars

\* a finished run in which a vertex that is no key of adj, only a neighbor, got
\* its color from the inner loop
C4_Witness ==
    /\ pc = "done"
    /\ \E v \in InputVertices :
        /\ v \notin DOMAIN adj
        /\ v \in DOMAIN color
        /\ \E u \in DOMAIN color : u # v /\ color[u] = color[v]

\* C5 (contiguity): the colors of the returned coloring are exactly 1..k with
\* 0 <= k <= |V|, and k = 0 exactly when the graph has no vertex.
C5_Contiguity ==
    pc = "done" =>
        LET n == Cardinality(UsedColors)
        IN  /\ UsedColors = 1..n
            /\ n <= Cardinality(InputVertices)
            /\ (n = 0 <=> InputVertices = {})

\* a finished run that used several colors and skipped an already colored vertex
C5_Witness ==
    /\ pc = "done"
    /\ Cardinality(UsedColors) >= 2
    /\ Cardinality(DOMAIN color) > Cardinality(UsedColors)

HasSelfLoop == \E v \in DOMAIN adj : v \in adj[v]

WithoutSelfLoops(a) == [v \in DOMAIN a |-> a[v] \ {v}]

\* C7 (self-loops are not propagated): the coloring returned for a graph with
\* self-loops is the coloring returned for the same graph without them.
C7_SelfLoopsIgnored ==
    (pc = "done" /\ HasSelfLoop) => color = welsh_powell(WithoutSelfLoops(adj))

\* The same graph with every vertex a key and every edge listed at both ends.
BothWays == [v \in InputVertices |-> {u \in InputVertices : InputEdge(u, v)}]

\* The same graph with every vertex a key and every edge listed at one end only.
OneWay == [v \in InputVertices |-> {u \in InputVertices : InputEdge(u, v) /\ Rank(v) <= Rank(u)}]

\* C8 (determinism): whatever order the sort is handed the vertices in, and
\* however adj lists the edges, the returned coloring is the one the function
\* gives for the graph listed both ways and for the graph listed one way.
C8_Determinism ==
    pc = "done" =>
        /\ color = welsh_powell(BothWays)
        /\ color = welsh_powell(OneWay)

\* a finished run on a graph listed neither way, where two adjacent vertices
\* tie on degree so that only the identifier orders them
C8_Witness ==
    /\ pc = "done"
    /\ adj # BothWays /\ adj # OneWay
    /\ \E a, b \in InputVertices :
        /\ a # b /\ InputEdge(a, b)
        /\ Cardinality(full[a]) = Cardinality(full[b])

ProperDegree(v) == Cardinality({u \in InputVertices : u # v /\ InputEdge(u, v)})

MaxDegree ==
    IF InputVertices = {} THEN 0
    ELSE CHOOSE d \in {ProperDegree(v) : v \in InputVertices} :
            \A v \in InputVertices : ProperDegree(v) <= d

\* C10 (maximal classes): when the inner loop has run out, just before
\* current_color is incremented, every uncolored vertex has a neighbor of the
\* current color; in the returned coloring every vertex has a neighbor of each
\* smaller color, and at most (maximum degree + 1) colors are used.
C10_MaximalClasses ==
    /\ (pc = "inner" /\ j > Len(order)) =>
            \A u \in InputVertices \ DOMAIN color :
                \E nbr \in InputVertices :
                    /\ InputEdge(u, nbr)
                    /\ nbr \in DOMAIN color /\ color[nbr] = current_color
    /\ pc = "done" =>
            /\ \A v \in DOMAIN color : \A c \in 1..(color[v] - 1) :
                    \E nbr \in DOMAIN color : nbr # v /\ InputEdge(v, nbr) /\ color[nbr] = c
            /\ Cardinality(UsedColors) <= MaxDegree + 1

\* the second class has just been grown and a vertex is still uncolored
C10_Witness ==
    /\ pc = "inner" /\ j > Len(order)
    /\ current_color >= 2
    /\ InputVertices \ DOMAIN color # {}

----------------------------------------------------------------------------
(* Properties of build_conflicts_from_enrollments, checked under SpecBuild *)

Lists(s, e) == \E n \in 1..Len(enrollments[s]) : enrollments[s][n] = e

\* C2 (irreflexivity of the builder): the returned graph has no self-loop, also
\* when a student's list repeats an exam.
C2_NoSelfLoop ==
    pc = "b_done" => \A e \in DOMAIN conflicts : e \notin conflicts[e]

\* C3 (builder correctness): the returned graph's vertices are the exams some
\* student lists, and for distinct a, b: b in conflicts[a] iff a in conflicts[b]
\* iff some student lists both.
C3_BuilderCorrect ==
    pc = "b_done" =>
        /\ DOMAIN conflicts = {e \in Exams : \E s \in DOMAIN enrollments : Lists(s, e)}
        /\ \A a, b \in DOMAIN conflicts :
            a # b =>
                /\ (b \in conflicts[a]) <=> (a \in conflicts[b])
                /\ (b \in conflicts[a]) <=>
                        \E s \in DOMAIN enrollments : Lists(s, a) /\ Lists(s, b)

\* a finished build with an edge, and an exam taken only alone left isolated
C3_Witness ==
    /\ pc = "b_done"
    /\ \E a, b \in DOMAIN conflicts : a # b /\ b \in conflicts[a]
    /\ \E e \in DOMAIN conflicts : conflicts[e] = {}

----------------------------------------------------------------------------
(* Properties of schedule_from_coloring, checked under SpecSched *)

\* C6 (parameter validation): with slot_duration <= 0 the mapper does not
\* return and builds no record.
C6_NonPositiveDurationRejected ==
    slot_duration <= 0 => (outcome # "returned" /\ rows = <<>>)

\* C9 (schedule monotonicity): the returned schedule has exactly one record per
\* exam, with the exam's slot and start = slot_start_hour + (slot - 1) *
\* slot_duration; with slot_duration > 0 a smaller slot starts earlier.
C9_ScheduleMonotone ==
    outcome = "returned" =>
        /\ Len(rows) = Cardinality(DOMAIN coloring)
        /\ \A e \in DOMAIN coloring :
            \E n \in 1..Len(rows) :
                /\ rows[n].Exam = e
                /\ rows[n].Slot = coloring[e]
                /\ rows[n].start = slot_start_hour + (coloring[e] - 1) * slot_duration
        /\ slot_duration > 0 =>
            \A m, n \in 1..Len(rows) :
                rows[m].Slot < rows[n].Slot => rows[m].start < rows[n].start

\* a returned schedule with a positive duration and two exams in different slots
C9_Witness ==
    /\ outcome = "returned"
    /\ slot_duration > 0
    /\ \E m, n \in 1..Len(rows) : rows[m].Slot < rows[n].Slot

====
